---- MODULE Spec2Model ----
(***************************************************************************)
(* Model of the Kafka consumption loop of salahfarzin/utils                *)
(* (package kafka: NewConsumer, RunConsumerLoop, RunConsumerLoopWithSleeper)*)
(* The Reader, the Handler, the Sleeper and the clock are the environment: *)
(* their results are inputs drawn from small sets.                         *)
(***************************************************************************)
EXTENDS Integers, Sequences, FiniteSets, TLC

(* ---------------------------- bounds ---------------------------------- *)
\* number of ReadMessage calls explored in one run of the loop
MaxReads == 12
\* largest clock reading (seconds) explored
MaxTime == 31
\* number of ReadMessage calls explored on an idle partition
MaxIdleReads == 32
\* reads of the first and of the second of two concurrent loop instances
MaxPairReadsA == 11
MaxPairReadsB == 2
\* reads of a run whose owner asks it to stop at some point
MaxSignalReads == 11
\* reads and messages of each of two runs that differ in their clock readings
MaxClockReads == 21
MaxClockMsgs == 1
\* reads and messages of a run with two error streaks around a message
MaxStreakReads == 20
MaxStreakMsgs == 1
\* writer calls of the handler RecoveryMiddleware wraps, per request
MaxHandlerOps == 3
\* middlewares given to CreateStack
MaxStack == 3
\* calls of ConsumeMessage in one run
MaxHelperCalls == 2
\* reads of a run that ends with cancellation
MaxLiveReads == 11
\* reads of each of two loop instances run in lockstep
MaxLockReads == 21
\* messages delivered to each of two loop instances run in lockstep
MaxLockMsgs == 1

(* ------------------------ program constants --------------------------- *)
\* const maxRetries = 10
maxRetries == 10
\* now.Sub(lastErrorTime) > 30*time.Second
IdleLogSeconds == 30
\* sleeper.Sleep(10 * time.Second)
BackoffSeconds == 10
\* lastErrorTime := time.Time{}: the zero time, before every clock reading
ZeroTime == -1

(* ----------------------- environment inputs --------------------------- *)
\* An error value is the set of sentinel errors found on its Unwrap chain.
context_Canceled == "context.Canceled"
context_DeadlineExceeded == "context.DeadlineExceeded"
io_EOF == "io.EOF"
net_Err == "net.OpError"

Errors ==
    { {context_Canceled}, {context_DeadlineExceeded}, {io_EOF}, {net_Err},
      {net_Err, io_EOF}, {io_EOF, context_Canceled} }

HandlerErrors == { {"handler error"} }

Nil == {}

\* errors.Is(err, target): target is on the chain of err
errors_Is(err, target) == target \in err

\* kafkago.Message as far as the loop uses it
NoMsg == [Key |-> "", Value |-> "", Offset |-> -1]
Payloads == { <<"k1", "v1">>, <<"k2", "v2">> }

\* the log before the loop has written to it: entries per level, the
\* retry_count field of the "failed to read message" entry written since the
\* latest read was issued (-1: no such entry) and the clock reading at the
\* latest "no new messages" entry (-1: no such entry)
NoLog == [Info |-> 0, Debug |-> 0, Warn |-> 0, Error |-> 0,
          retry_count |-> -1, idleAt |-> -1]

\* clock advance between two readings of time.Now()
ClockSteps == {0, 29, 30, 31}

\* time.Time.Sub: the distance to the zero time saturates far above 30s
Sub(t, u) == IF u = ZeroTime THEN MaxTime + IdleLogSeconds + 1 ELSE t - u

\* the three error classes of the loop (cancellation, end-of-stream, other)
ErrClass(err) ==
    IF context_Canceled \in err \/ context_DeadlineExceeded \in err THEN "cancel"
    ELSE IF io_EOF \in err THEN "eof"
    ELSE "other"

VARIABLES
    entry,          \* "none", "driver" (direct call) or "starter" (NewConsumer)
    pc,             \* position of the execution context that runs the loop
    retryCount,     \* retryCount
    lastErrorTime,  \* lastErrorTime
    now,            \* last reading of the clock
    msg,            \* msg of the current iteration
    inflight,       \* Handler.Handle calls that have not returned
    reads,          \* history: ReadMessage calls issued
    nOk,            \* history: reads that returned a message
    nEof,           \* history: reads that returned an end-of-stream error
    nOther,         \* history: reads that returned an other-class error
    nCancel,        \* history: reads that returned a cancellation-class error
    errRun,         \* history: consecutive read errors since start / last message
    sleepsInRun,    \* history: Sleeper calls since start / last message
    sinceReset,     \* history: consecutive read errors since start / message / sleep
    sleeps,         \* history: Sleeper.Sleep calls
    log,            \* history: the log entries written by the loop
    handles,        \* history: Handler.Handle calls
    handleErrs,     \* history: Handler.Handle calls that returned an error
    lastRead,       \* history: the last message the Reader returned
    delivered,      \* history: arguments of the last Handler.Handle call
    closes,         \* history: Reader.Close calls
    sleepArg,       \* history: duration (seconds) of the last Sleeper.Sleep call
    starterPc,      \* caller of NewConsumer / NewSecureConsumer
    readersBuilt,   \* history: kafkago.NewReader calls of the starters
    goroutines,     \* history: goroutines launched by the starters
    cur,            \* the loop instance the loop variables above belong to
    parked,         \* the loop variables of the other loop instance
    helper,         \* a call of ConsumeMessage
    stk,            \* a handler built by CreateStack serving a request
    auth,           \* AuthMiddleware serving a request
    rec,            \* RecoveryMiddleware serving a request
    signal          \* where the loop was when its owner asked it to stop ("none": not asked)

vars == << entry, pc, retryCount, lastErrorTime, now, msg, inflight, reads,
           nOk, nEof, nOther, nCancel, errRun, sleepsInRun, sinceReset,
           sleeps, handles, handleErrs, lastRead, delivered, closes,
           sleepArg, log, starterPc, readersBuilt, goroutines,
           cur, parked, helper, stk, auth, rec, signal >>

\* what the starters leave behind in their caller
starterVars == << starterPc, readersBuilt, goroutines >>
\* state outside one run of the consumer loop
outside == << cur, parked, helper, stk, auth, rec, signal >>

\* everything the consumer loop and its starters own
loopVars == << entry, pc, retryCount, lastErrorTime, now, msg, inflight, reads,
               nOk, nEof, nOther, nCancel, errRun, sleepsInRun, sinceReset,
               sleeps, handles, handleErrs, lastRead, delivered, closes,
               sleepArg, log, starterPc, readersBuilt, goroutines, cur, parked,
               signal >>

loopLocals == << retryCount, lastErrorTime, now, msg, inflight >>
readerHist == << nOk, nEof, nOther, nCancel, errRun, lastRead >>
handlerHist == << handles, handleErrs, delivered >>

\* nothing has been called yet
KafkaInit ==
    /\ entry = "none"
    /\ pc = "idle"
    /\ retryCount = 0
    /\ lastErrorTime = ZeroTime
    /\ now = 0
    /\ msg = NoMsg
    /\ inflight = 0
    /\ reads = 0
    /\ nOk = 0
    /\ nEof = 0
    /\ nOther = 0
    /\ nCancel = 0
    /\ errRun = 0
    /\ sleepsInRun = 0
    /\ sinceReset = 0
    /\ sleeps = 0
    /\ handles = 0
    /\ handleErrs = 0
    /\ lastRead = NoMsg
    /\ delivered = NoMsg
    /\ closes = 0
    /\ sleepArg = 0
    /\ log = NoLog
    /\ starterPc = "idle"
    /\ readersBuilt = 0
    /\ goroutines = 0
    /\ signal = "none"

\* the variables one call of RunConsumerLoopWithSleeper owns: its locals, its
\* Reader, Handler and Sleeper, and their histories
Locals ==
    [ entry |-> entry, pc |-> pc, retryCount |-> retryCount,
      lastErrorTime |-> lastErrorTime, msg |-> msg, inflight |-> inflight,
      reads |-> reads, nOk |-> nOk, nEof |-> nEof, nOther |-> nOther,
      nCancel |-> nCancel, errRun |-> errRun, sleepsInRun |-> sleepsInRun,
      sinceReset |-> sinceReset, sleeps |-> sleeps, sleepArg |-> sleepArg,
      log |-> log,
      handles |-> handles, handleErrs |-> handleErrs, lastRead |-> lastRead,
      delivered |-> delivered, closes |-> closes ]

\* a loop instance that has not been called yet
FreshInstance ==
    [ entry |-> "none", pc |-> "idle", retryCount |-> 0,
      lastErrorTime |-> ZeroTime, msg |-> NoMsg, inflight |-> 0,
      reads |-> 0, nOk |-> 0, nEof |-> 0, nOther |-> 0,
      nCancel |-> 0, errRun |-> 0, sleepsInRun |-> 0,
      sinceReset |-> 0, sleeps |-> 0, sleepArg |-> 0,
      log |-> NoLog,
      handles |-> 0, handleErrs |-> 0, lastRead |-> NoMsg,
      delivered |-> NoMsg, closes |-> 0 ]

\* a sub-model that is not exercised
Idle == [pc |-> "idle"]

Init ==
    /\ KafkaInit
    /\ cur = 1
    /\ parked = FreshInstance
    /\ helper = Idle
    /\ stk = Idle
    /\ auth = Idle
    /\ rec = Idle

(* ------------------------- entry points ------------------------------- *)
\* variant: the loop is run by the caller (no go statement)
NewConsumer_sync ==
    /\ pc = "idle"
    /\ entry' = "starter"
    /\ pc' = "spawned"
    /\ UNCHANGED << loopLocals, reads, readerHist, sleepsInRun, sinceReset,
                    sleeps, sleepArg, log, handlerHist, closes >>
    /\ readersBuilt' = readersBuilt + 1
    /\ UNCHANGED << starterPc, goroutines, outside >>

\* NewConsumer / NewSecureConsumer: build the reader, launch the goroutine, return
NewConsumer ==
    /\ pc = "idle"
    /\ entry' = "starter"
    /\ pc' = "spawned"
    /\ UNCHANGED << loopLocals, reads, readerHist, sleepsInRun, sinceReset,
                    sleeps, sleepArg, log, handlerHist, closes >>
    /\ starterPc' = "returned"
    /\ readersBuilt' = readersBuilt + 1
    /\ goroutines' = goroutines + 1
    /\ UNCHANGED outside

\* results of scram.Mechanism(scram.SHA512, cfg.Username, cfg.Password)
MechanismErrors == { {"scram: invalid credentials"} }

\* NewSecureConsumer up to the result of scram.Mechanism
NewSecureConsumer ==
    /\ pc = "idle"
    /\ pc' = "starting"
    /\ \E err \in {Nil} \cup MechanismErrors :
         starterPc' = IF err # Nil THEN "sasl_err" ELSE "sasl_ok"
    /\ UNCHANGED << entry, loopLocals, reads, readerHist, sleepsInRun, sinceReset,
                    sleeps, sleepArg, log, handlerHist, closes >>
    /\ UNCHANGED << readersBuilt, goroutines, outside >>

\* variant: the error of scram.Mechanism is logged and construction goes on
NewSecureConsumerLaunch_logOnly ==
    /\ pc = "starting"
    /\ entry' = "starter"
    /\ pc' = "spawned"
    /\ starterPc' = "returned"
    /\ readersBuilt' = readersBuilt + 1
    /\ goroutines' = goroutines + 1
    /\ UNCHANGED << loopLocals, reads, readerHist, sleepsInRun, sinceReset,
                    sleeps, sleepArg, log, handlerHist, closes >>
    /\ UNCHANGED outside

\* NewSecureConsumer after scram.Mechanism: log.Fatal on an error, otherwise
\* build the dialer and the reader, launch the goroutine, return
NewSecureConsumerLaunch ==
    /\ pc = "starting"
    /\ IF starterPc = "sasl_err"
       THEN /\ pc' = "fatal"
            /\ starterPc' = "exited"
            /\ UNCHANGED << entry, readersBuilt, goroutines >>
       ELSE /\ entry' = "starter"
            /\ pc' = "spawned"
            /\ starterPc' = "returned"
            /\ readersBuilt' = readersBuilt + 1
            /\ goroutines' = goroutines + 1
    /\ UNCHANGED << loopLocals, reads, readerHist, sleepsInRun, sinceReset,
                    sleeps, sleepArg, log, handlerHist, closes >>
    /\ UNCHANGED outside

\* prologue of RunConsumerLoopWithSleeper, called directly or by the goroutine
RunConsumerLoopWithSleeper ==
    /\ \/ pc = "idle" /\ entry' = "driver"
       \/ pc = "spawned" /\ entry' = entry
    /\ retryCount' = 0
    /\ lastErrorTime' = ZeroTime
    /\ pc' = "loop"
    /\ UNCHANGED << now, msg, inflight, reads, readerHist, sleepsInRun,
                    sinceReset, sleeps, sleepArg, handlerHist, closes >>
    /\ UNCHANGED << starterVars, outside >>
    /\ log' = [log EXCEPT !.Info = @ + 1]

(* --------------------------- the loop --------------------------------- *)
\* msg, err := reader.ReadMessage(ctx): the call is issued
ReadIssueUpTo(bound) ==
    /\ pc = "loop"
    /\ reads < bound
    /\ pc' = "reading"
    /\ reads' = reads + 1
    /\ log' = [log EXCEPT !.retry_count = -1]
    /\ UNCHANGED << entry, loopLocals, readerHist, sleepsInRun, sinceReset,
                    sleeps, sleepArg, handlerHist, closes >>
    /\ UNCHANGED << starterVars, outside >>

\* variant: only context.Canceled is taken as cancellation
IsCancellation_onlyCanceled(err) == errors_Is(err, context_Canceled)

\* errors.Is(err, context.Canceled) || errors.Is(err, context.DeadlineExceeded)
IsCancellation(err) ==
    errors_Is(err, context_Canceled) \/ errors_Is(err, context_DeadlineExceeded)

\* variant: the threshold test is strict
ReachedThreshold_strict(c) == c > maxRetries

\* variant: the threshold test is one too early
ReachedThreshold_early(c) == c >= maxRetries - 1

\* retryCount >= maxRetries
ReachedThreshold(c) == c >= maxRetries

\* the reader's result as the environment saw it
Observe(err, m) ==
    /\ nOk' = IF err = Nil THEN nOk + 1 ELSE nOk
    /\ nEof' = IF err # Nil /\ ErrClass(err) = "eof" THEN nEof + 1 ELSE nEof
    /\ nOther' = IF err # Nil /\ ErrClass(err) = "other" THEN nOther + 1 ELSE nOther
    /\ nCancel' = IF err # Nil /\ ErrClass(err) = "cancel" THEN nCancel + 1 ELSE nCancel
    /\ errRun' = IF err = Nil THEN 0
                 ELSE IF ErrClass(err) = "cancel" THEN errRun ELSE errRun + 1
    /\ lastRead' = IF err = Nil THEN m ELSE lastRead

\* variant: the loop-driver releases the Reader itself before it returns
OnCancel_close ==
    /\ pc' = "returned"
    /\ closes' = closes + 1
    /\ UNCHANGED << loopLocals, sleeps, sleepArg, sleepsInRun, sinceReset, handlerHist >>
    /\ log' = [log EXCEPT !.Info = @ + 1]

\* variant: a cancellation-class error is retried like any other error
OnCancel_continue ==
    /\ pc' = "loop"
    /\ UNCHANGED << loopLocals, sleeps, sleepArg, sleepsInRun, sinceReset, handlerHist, closes >>
    /\ log' = [log EXCEPT !.Info = @ + 1]

\* log.Info(...); return
OnCancel ==
    /\ pc' = "returned"
    /\ UNCHANGED << loopLocals, sleeps, sleepArg, sleepsInRun, sinceReset, handlerHist, closes >>
    /\ log' = [log EXCEPT !.Info = @ + 1]

\* variant: the diagnostic is due from 30 seconds on
IdleLogDue_atLeast(t, last) == Sub(t, last) >= IdleLogSeconds

\* now.Sub(lastErrorTime) > 30*time.Second
IdleLogDue(t, last) == Sub(t, last) > IdleLogSeconds

\* variant: the timestamp is taken at every threshold
OnEOF_stampAlways ==
    /\ retryCount' = retryCount + 1
    /\ IF ReachedThreshold(retryCount')
       THEN /\ \E d \in ClockSteps :
                 /\ now + d <= MaxTime
                 /\ now' = now + d
            /\ log' = IF IdleLogDue(now', lastErrorTime)
                      THEN [log EXCEPT !.Debug = @ + 1, !.idleAt = now'] ELSE log
            /\ lastErrorTime' = now'
            /\ sleeps' = sleeps + 1
            /\ sleepArg' = BackoffSeconds
            /\ sleepsInRun' = sleepsInRun + 1
            /\ sinceReset' = sinceReset + 1
            /\ pc' = "sleeping"
       ELSE /\ pc' = "loop"
            /\ sinceReset' = sinceReset + 1
            /\ UNCHANGED << now, lastErrorTime, sleeps, sleepArg, log, sleepsInRun >>
    /\ UNCHANGED << msg, inflight, handlerHist, closes >>

\* variant: the backoff is taken only together with the diagnostic
OnEOF_sleepIfLogged ==
    /\ retryCount' = retryCount + 1
    /\ IF ReachedThreshold(retryCount')
       THEN /\ \E d \in ClockSteps :
                 /\ now + d <= MaxTime
                 /\ now' = now + d
            /\ IF IdleLogDue(now', lastErrorTime)
               THEN /\ log' = [log EXCEPT !.Debug = @ + 1, !.idleAt = now']
                    /\ lastErrorTime' = now'
                    /\ sleeps' = sleeps + 1
                    /\ sleepArg' = BackoffSeconds
                    /\ sleepsInRun' = sleepsInRun + 1
                    /\ pc' = "sleeping"
               ELSE /\ pc' = "loop"
                    /\ UNCHANGED << log, lastErrorTime, sleeps, sleepArg, sleepsInRun >>
            /\ sinceReset' = sinceReset + 1
       ELSE /\ pc' = "loop"
            /\ sinceReset' = sinceReset + 1
            /\ UNCHANGED << now, lastErrorTime, sleeps, sleepArg, log, sleepsInRun >>
    /\ UNCHANGED << msg, inflight, handlerHist, closes >>

\* the io.EOF branch up to the Sleep call or the continue
OnEOF ==
    /\ retryCount' = retryCount + 1
    /\ IF ReachedThreshold(retryCount')
       THEN /\ \E d \in ClockSteps :
                 /\ now + d <= MaxTime
                 /\ now' = now + d
            /\ IF IdleLogDue(now', lastErrorTime)
               THEN /\ log' = [log EXCEPT !.Debug = @ + 1, !.idleAt = now']
                    /\ lastErrorTime' = now'
               ELSE UNCHANGED << log, lastErrorTime >>
            /\ sleeps' = sleeps + 1
            /\ sleepArg' = BackoffSeconds
            /\ sleepsInRun' = sleepsInRun + 1
            /\ sinceReset' = sinceReset + 1
            /\ pc' = "sleeping"
       ELSE /\ pc' = "loop"
            /\ sinceReset' = sinceReset + 1
            /\ UNCHANGED << now, lastErrorTime, sleeps, sleepArg, log, sleepsInRun >>
    /\ UNCHANGED << msg, inflight, handlerHist, closes >>

\* variant: the loop gives up when the threshold is reached
OnOther_fatal ==
    /\ retryCount' = retryCount + 1
    /\ pc' = IF ReachedThreshold(retryCount') THEN "returned" ELSE "loop"
    /\ sinceReset' = sinceReset + 1
    /\ log' = [log EXCEPT !.Error = @ + 1, !.retry_count = retryCount]
    /\ UNCHANGED << sleeps, sleepArg, sleepsInRun >>
    /\ UNCHANGED << now, lastErrorTime, msg, inflight, handlerHist, closes >>

\* variant: the pause after other-class errors grows with every backoff
OnOther_escalating ==
    /\ retryCount' = retryCount + 1
    /\ IF ReachedThreshold(retryCount')
       THEN /\ log' = [log EXCEPT !.Error = @ + 1, !.retry_count = retryCount,
                                  !.Warn = @ + 1]
            /\ sleeps' = sleeps + 1
            /\ sleepArg' = BackoffSeconds * (sleeps + 1)
            /\ sleepsInRun' = sleepsInRun + 1
            /\ sinceReset' = sinceReset + 1
            /\ pc' = "sleeping"
       ELSE /\ log' = [log EXCEPT !.Error = @ + 1, !.retry_count = retryCount]
            /\ pc' = "loop"
            /\ sinceReset' = sinceReset + 1
            /\ UNCHANGED << sleeps, sleepArg, sleepsInRun >>
    /\ UNCHANGED << now, lastErrorTime, msg, inflight, handlerHist, closes >>

\* variant: the error entry is written after the increment
OnOther_logAfter ==
    /\ retryCount' = retryCount + 1
    /\ IF ReachedThreshold(retryCount')
       THEN /\ log' = [log EXCEPT !.Error = @ + 1, !.retry_count = retryCount',
                                  !.Warn = @ + 1]
            /\ sleeps' = sleeps + 1
            /\ sleepArg' = BackoffSeconds
            /\ sleepsInRun' = sleepsInRun + 1
            /\ sinceReset' = sinceReset + 1
            /\ pc' = "sleeping"
       ELSE /\ log' = [log EXCEPT !.Error = @ + 1, !.retry_count = retryCount']
            /\ pc' = "loop"
            /\ sinceReset' = sinceReset + 1
            /\ UNCHANGED << sleeps, sleepArg, sleepsInRun >>
    /\ UNCHANGED << now, lastErrorTime, msg, inflight, handlerHist, closes >>

\* the branch of every other reader error up to the Sleep call or the continue
OnOther ==
    /\ retryCount' = retryCount + 1
    /\ IF ReachedThreshold(retryCount')
       THEN /\ log' = [log EXCEPT !.Error = @ + 1, !.retry_count = retryCount,
                                  !.Warn = @ + 1]
            /\ sleeps' = sleeps + 1
            /\ sleepArg' = BackoffSeconds
            /\ sleepsInRun' = sleepsInRun + 1
            /\ sinceReset' = sinceReset + 1
            /\ pc' = "sleeping"
       ELSE /\ log' = [log EXCEPT !.Error = @ + 1, !.retry_count = retryCount]
            /\ pc' = "loop"
            /\ sinceReset' = sinceReset + 1
            /\ UNCHANGED << sleeps, sleepArg, sleepsInRun >>
    /\ UNCHANGED << now, lastErrorTime, msg, inflight, handlerHist, closes >>

\* variant: the counter is not reset on a successful read
OnSuccess_noReset(m) ==
    /\ retryCount' = retryCount
    /\ msg' = m
    /\ inflight' = inflight + 1
    /\ handles' = handles + 1
    /\ delivered' = [Key |-> m.Key, Value |-> m.Value, Offset |-> m.Offset]
    /\ sleepsInRun' = 0
    /\ sinceReset' = 0
    /\ pc' = "handling"
    /\ UNCHANGED << lastErrorTime, now, sleeps, sleepArg, handleErrs, closes >>
    /\ log' = [log EXCEPT !.Info = @ + 1]

\* variant: the Handler gets a nil key
OnSuccess_nilKey(m) ==
    /\ retryCount' = 0
    /\ msg' = m
    /\ inflight' = inflight + 1
    /\ handles' = handles + 1
    /\ delivered' = [Key |-> "", Value |-> m.Value, Offset |-> m.Offset]
    /\ sleepsInRun' = 0
    /\ sinceReset' = 0
    /\ pc' = "handling"
    /\ UNCHANGED << lastErrorTime, now, sleeps, sleepArg, handleErrs, closes >>
    /\ log' = [log EXCEPT !.Info = @ + 1]

\* variant: the Handler is started on its own goroutine (go handler.Handle(...))
OnSuccess_async(m) ==
    /\ retryCount' = 0
    /\ msg' = m
    /\ inflight' = inflight + 1
    /\ handles' = handles + 1
    /\ delivered' = [Key |-> m.Key, Value |-> m.Value, Offset |-> m.Offset]
    /\ sleepsInRun' = 0
    /\ sinceReset' = 0
    /\ pc' = "loop"
    /\ UNCHANGED << lastErrorTime, now, sleeps, sleepArg, handleErrs, closes >>
    /\ log' = [log EXCEPT !.Info = @ + 1]

\* retryCount = 0; log.Info(...); handler.Handle(ctx, msg.Key, msg.Value) is called
OnSuccess(m) ==
    /\ retryCount' = 0
    /\ msg' = m
    /\ inflight' = inflight + 1
    /\ handles' = handles + 1
    /\ delivered' = [Key |-> m.Key, Value |-> m.Value, Offset |-> m.Offset]
    /\ sleepsInRun' = 0
    /\ sinceReset' = 0
    /\ pc' = "handling"
    /\ UNCHANGED << lastErrorTime, now, sleeps, sleepArg, handleErrs, closes >>
    /\ log' = [log EXCEPT !.Info = @ + 1]

\* reader.ReadMessage returns and the loop acts on (msg, err)
ReadReturnFrom(payloads, errs) ==
    /\ pc = "reading"
    /\ \/ \E p \in payloads :
            LET m == [Key |-> p[1], Value |-> p[2], Offset |-> nOk] IN
            /\ Observe(Nil, m)
            /\ OnSuccess(m)
       \/ \E err \in errs :
            /\ Observe(err, NoMsg)
            /\ IF IsCancellation(err) THEN OnCancel
               ELSE IF errors_Is(err, io_EOF) THEN OnEOF
               ELSE OnOther
    /\ UNCHANGED << entry, reads >>
    /\ UNCHANGED << starterVars, outside >>

ReadIssue == ReadIssueUpTo(MaxReads)

ReadReturn == ReadReturnFrom(Payloads, Errors)

\* variant: the counter is not reset after the backoff
SleepReturn_noReset ==
    /\ pc = "sleeping"
    /\ retryCount' = retryCount
    /\ sinceReset' = 0
    /\ pc' = "loop"
    /\ UNCHANGED << entry, lastErrorTime, now, msg, inflight, reads, readerHist,
                    sleepsInRun, sleeps, sleepArg, log, handlerHist, closes >>
    /\ UNCHANGED << starterVars, outside >>

\* variant: the loop looks at the stop request when the sleep is over
SleepReturn_interruptible ==
    /\ pc = "sleeping"
    /\ retryCount' = 0
    /\ sinceReset' = 0
    /\ pc' = IF signal # "none" THEN "returned" ELSE "loop"
    /\ UNCHANGED << entry, lastErrorTime, now, msg, inflight, reads, readerHist,
                    sleepsInRun, sleeps, sleepArg, log, handlerHist, closes >>
    /\ UNCHANGED << starterVars, outside >>

\* sleeper.Sleep returns; retryCount = 0; continue
SleepReturn ==
    /\ pc = "sleeping"
    /\ retryCount' = 0
    /\ sinceReset' = 0
    /\ pc' = "loop"
    /\ UNCHANGED << entry, lastErrorTime, now, msg, inflight, reads, readerHist,
                    sleepsInRun, sleeps, sleepArg, log, handlerHist, closes >>
    /\ UNCHANGED << starterVars, outside >>

\* variant: a Handler error counts as a retryable failure
HandleReturn_penalise ==
    /\ pc = "handling"
    /\ inflight > 0
    /\ \E herr \in {Nil} \cup HandlerErrors :
         /\ handleErrs' = IF herr # Nil THEN handleErrs + 1 ELSE handleErrs
         /\ log' = IF herr # Nil THEN [log EXCEPT !.Error = @ + 1] ELSE log
         /\ retryCount' = IF herr # Nil THEN retryCount + 1 ELSE retryCount
    /\ inflight' = inflight - 1
    /\ msg' = NoMsg
    /\ pc' = "loop"
    /\ UNCHANGED << entry, lastErrorTime, now, reads, readerHist,
                    sleepsInRun, sinceReset, sleeps, sleepArg, handles, delivered, closes >>
    /\ UNCHANGED << starterVars, outside >>

\* handler.Handle returns herr; an error is logged; next iteration either way
HandleReturn ==
    /\ pc = "handling"
    /\ inflight > 0
    /\ \E herr \in {Nil} \cup HandlerErrors :
         /\ handleErrs' = IF herr # Nil THEN handleErrs + 1 ELSE handleErrs
         /\ log' = IF herr # Nil THEN [log EXCEPT !.Error = @ + 1] ELSE log
    /\ inflight' = inflight - 1
    /\ msg' = NoMsg
    /\ pc' = "loop"
    /\ UNCHANGED << entry, retryCount, lastErrorTime, now, reads, readerHist,
                    sleepsInRun, sinceReset, sleeps, sleepArg, handles, delivered, closes >>
    /\ UNCHANGED << starterVars, outside >>

\* variant: reader.Close() is not deferred and runs beside the loop
DeferredClose_early ==
    /\ pc = "loop"
    /\ entry = "starter"
    /\ closes = 0
    /\ closes' = closes + 1
    /\ UNCHANGED << entry, pc, loopLocals, reads, readerHist, sleepsInRun,
                    sinceReset, sleeps, sleepArg, log, handlerHist >>
    /\ UNCHANGED << starterVars, outside >>

\* defer reader.Close() of the goroutine launched by NewConsumer / NewSecureConsumer
DeferredClose ==
    /\ pc = "returned"
    /\ entry = "starter"
    /\ closes' = closes + 1
    /\ pc' = "closed"
    /\ UNCHANGED << entry, loopLocals, reads, readerHist, sleepsInRun,
                    sinceReset, sleeps, sleepArg, log, handlerHist >>
    /\ UNCHANGED << starterVars, outside >>

Next ==
    \/ NewConsumer
    \/ NewSecureConsumer
    \/ NewSecureConsumerLaunch
    \/ RunConsumerLoopWithSleeper
    \/ ReadIssue
    \/ ReadReturn
    \/ SleepReturn
    \/ HandleReturn
    \/ DeferredClose

Spec == Init /\ [][Next]_vars

(* ------------------- two loop instances ------------------------------ *)
\* variant: retryCount is a package-level variable, not a local of the call
Restore_sharedCounter(p) ==
    /\ entry' = p.entry /\ pc' = p.pc /\ retryCount' = retryCount
    /\ lastErrorTime' = p.lastErrorTime /\ msg' = p.msg
    /\ inflight' = p.inflight /\ reads' = p.reads /\ nOk' = p.nOk
    /\ nEof' = p.nEof /\ nOther' = p.nOther /\ nCancel' = p.nCancel
    /\ errRun' = p.errRun /\ sleepsInRun' = p.sleepsInRun
    /\ sinceReset' = p.sinceReset /\ sleeps' = p.sleeps
    /\ sleepArg' = p.sleepArg /\ log' = p.log
    /\ /\ handles' = p.handles
    /\ handleErrs' = p.handleErrs /\ lastRead' = p.lastRead
    /\ delivered' = p.delivered /\ closes' = p.closes

\* the locals of a call are that call's own: retryCount := 0, lastErrorTime := ...
Restore(p) ==
    /\ entry' = p.entry /\ pc' = p.pc /\ retryCount' = p.retryCount
    /\ lastErrorTime' = p.lastErrorTime /\ msg' = p.msg
    /\ inflight' = p.inflight /\ reads' = p.reads /\ nOk' = p.nOk
    /\ nEof' = p.nEof /\ nOther' = p.nOther /\ nCancel' = p.nCancel
    /\ errRun' = p.errRun /\ sleepsInRun' = p.sleepsInRun
    /\ sinceReset' = p.sinceReset /\ sleeps' = p.sleeps
    /\ sleepArg' = p.sleepArg /\ log' = p.log
    /\ /\ handles' = p.handles
    /\ handleErrs' = p.handleErrs /\ lastRead' = p.lastRead
    /\ delivered' = p.delivered /\ closes' = p.closes

\* the scheduler runs the other loop instance
Switch ==
    /\ cur' = 3 - cur
    /\ parked' = Locals
    /\ Restore(parked)
    /\ UNCHANGED << now, starterVars, helper, stk, auth, rec, signal >>

Max(a, b) == IF a >= b THEN a ELSE b

\* reads that have returned
Returned(p) == p.nOk + p.nEof + p.nOther + p.nCancel

\* Two independent instances: the first on an idle partition, the second on
\* a busy topic.
PairErrorsA == { {io_EOF}, {context_Canceled} }

PairReadIssue == ReadIssueUpTo(IF cur = 1 THEN MaxPairReadsA ELSE MaxPairReadsB)

PairReadReturn ==
    IF cur = 1 THEN ReadReturnFrom({}, PairErrorsA)
               ELSE ReadReturnFrom(Payloads, Errors)

NextPair ==
    \/ RunConsumerLoopWithSleeper
    \/ PairReadIssue
    \/ PairReadReturn
    \/ SleepReturn
    \/ HandleReturn
    \/ Switch

SpecPair == Init /\ [][NextPair]_vars

\* Two instances fed the same reader results up to the class of each
\* non-cancellation error: the first gets end-of-stream errors only, the
\* second any mix of end-of-stream and other errors, never more than one
\* result behind.
LockPayloads == IF Max(nOk, parked.nOk) < MaxLockMsgs THEN { <<"k1", "v1">> } ELSE {}
LockErrorsA == { {io_EOF}, {context_Canceled} }
LockRetryable == { {io_EOF}, {net_Err}, {net_Err, io_EOF} }
LockCancel == { {context_Canceled}, {context_DeadlineExceeded} }

LockReadIssue == ReadIssueUpTo(MaxLockReads)

LockReadReturn ==
    IF cur = 1
    THEN /\ Returned(Locals) = Returned(parked)
         /\ ReadReturnFrom(LockPayloads, LockErrorsA)
    ELSE /\ Returned(Locals) < Returned(parked)
         /\ IF parked.nOk > nOk THEN ReadReturnFrom({ <<"k1", "v1">> }, {})
            ELSE IF parked.nCancel > nCancel THEN ReadReturnFrom({}, LockCancel)
            ELSE ReadReturnFrom({}, LockRetryable)

\* the live instance waits for the other one: it has stopped, has used up
\* its reads, or waits for a result the other instance has to be given first
LockBlocked ==
    \/ pc \in {"returned", "closed"}
    \/ pc = "loop" /\ reads >= MaxLockReads
    \/ pc = "reading" /\ cur = 1 /\ Returned(Locals) # Returned(parked)
    \/ pc = "reading" /\ cur = 2 /\ Returned(Locals) >= Returned(parked)

LockSwitch == LockBlocked /\ Switch

NextLock ==
    \/ RunConsumerLoopWithSleeper
    \/ LockReadIssue
    \/ LockReadReturn
    \/ SleepReturn
    \/ HandleReturn
    \/ LockSwitch

SpecLock == Init /\ [][NextLock]_vars

\* Two instances given the same reader and handler results, the second never
\* more than one result behind; each reads the clock when it reaches an
\* end-of-stream threshold, so their clock readings differ.
ClockPayloads == IF nOk < MaxClockMsgs THEN { <<"k1", "v1">> } ELSE {}
ClockErrors == { {io_EOF}, {net_Err}, {context_Canceled} }

\* reader and handler results an instance has been given
ClockResults(p) == Returned(p) + p.handles - p.inflight

ClockReadIssue == ReadIssueUpTo(MaxClockReads)

ClockReadReturn ==
    IF cur = 1
    THEN /\ ClockResults(Locals) = ClockResults(parked)
         /\ ReadReturnFrom(ClockPayloads, ClockErrors)
    ELSE /\ ClockResults(Locals) < ClockResults(parked)
         /\ IF parked.nOk > nOk
            THEN ReadReturnFrom({ << parked.lastRead.Key, parked.lastRead.Value >> }, {})
            ELSE IF parked.nCancel > nCancel THEN ReadReturnFrom({}, { {context_Canceled} })
            ELSE IF parked.nEof > nEof THEN ReadReturnFrom({}, { {io_EOF} })
            ELSE ReadReturnFrom({}, { {net_Err} })

ClockHandleReturn ==
    IF cur = 1
    THEN /\ ClockResults(Locals) = ClockResults(parked)
         /\ HandleReturn
    ELSE /\ ClockResults(Locals) < ClockResults(parked)
         /\ HandleReturn
         /\ handleErrs' = parked.handleErrs

\* the live instance waits for the other one
ClockBlocked ==
    \/ pc \in {"returned", "closed"}
    \/ pc = "loop" /\ reads >= MaxClockReads
    \/ /\ pc \in {"reading", "handling"}
       /\ \/ cur = 1 /\ ClockResults(Locals) # ClockResults(parked)
          \/ cur = 2 /\ ClockResults(Locals) >= ClockResults(parked)

ClockSwitch == ClockBlocked /\ Switch

NextClock ==
    \/ RunConsumerLoopWithSleeper
    \/ ClockReadIssue
    \/ ClockReadReturn
    \/ SleepReturn
    \/ ClockHandleReturn
    \/ ClockSwitch

SpecClock == Init /\ [][NextClock]_vars

\* A run whose owner asks the loop to stop at any moment. The loop takes
\* ctx from context.Background() and gives the Sleeper and the Handler no way
\* to report the request; only the Reader can, by returning a
\* cancellation-class error from a read that returns after the request.
CancelSignal ==
    /\ signal = "none"
    /\ pc \in {"loop", "reading", "sleeping", "handling"}
    /\ signal' = pc
    /\ UNCHANGED << entry, pc, loopLocals, reads, readerHist, sleepsInRun, sinceReset,
                    sleeps, sleepArg, log, handlerHist, closes, starterVars,
                    cur, parked, helper, stk, auth, rec >>

SignalRetryable == { {io_EOF}, {net_Err} }

SignalReadIssue == ReadIssueUpTo(MaxSignalReads)

SignalReadReturn ==
    ReadReturnFrom(Payloads, IF signal # "none" THEN SignalRetryable \cup LockCancel
                             ELSE SignalRetryable)

NextSignal ==
    \/ NewConsumer
    \/ RunConsumerLoopWithSleeper
    \/ CancelSignal
    \/ SignalReadIssue
    \/ SignalReadReturn
    \/ SleepReturn
    \/ HandleReturn
    \/ DeferredClose

SpecSignal == Init /\ [][NextSignal]_vars

\* A run whose reads end by a deadline: every cancellation-class error is or
\* wraps context.DeadlineExceeded, alone or together with io.EOF or a
\* network error.
DeadlineErrors ==
    { {context_DeadlineExceeded}, {io_EOF, context_DeadlineExceeded},
      {net_Err, context_DeadlineExceeded}, {io_EOF}, {net_Err}, {net_Err, io_EOF} }

DeadlineReadReturn == ReadReturnFrom(Payloads, DeadlineErrors)

NextDeadline ==
    \/ RunConsumerLoopWithSleeper
    \/ ReadIssue
    \/ DeadlineReadReturn
    \/ SleepReturn
    \/ HandleReturn

SpecDeadline == Init /\ [][NextDeadline]_vars

\* A run long enough for two error streaks with a message between them.
StreakPayloads == IF nOk < MaxStreakMsgs THEN { <<"k1", "v1">> } ELSE {}
StreakErrors == { {io_EOF}, {net_Err}, {context_DeadlineExceeded} }

StreakReadIssue == ReadIssueUpTo(MaxStreakReads)

StreakReadReturn == ReadReturnFrom(StreakPayloads, StreakErrors)

NextStreak ==
    \/ RunConsumerLoopWithSleeper
    \/ StreakReadIssue
    \/ StreakReadReturn
    \/ SleepReturn
    \/ HandleReturn

SpecStreak == Init /\ [][NextStreak]_vars

(* A run in which the Reader returns a cancellation-class error at the    *)
(* latest on its last read, every Reader, Handler and Sleeper call returns *)
(* and the goroutine is scheduled.                                         *)
LiveReadIssue == ReadIssueUpTo(MaxLiveReads)

LiveReadReturn ==
    IF reads < MaxLiveReads THEN ReadReturnFrom(Payloads, Errors)
                            ELSE ReadReturnFrom({}, LockCancel)

NextLive ==
    \/ NewConsumer
    \/ NewSecureConsumer
    \/ NewSecureConsumerLaunch
    \/ RunConsumerLoopWithSleeper
    \/ LiveReadIssue
    \/ LiveReadReturn
    \/ SleepReturn
    \/ HandleReturn
    \/ DeferredClose

SpecLive ==
    /\ Init
    /\ [][NextLive]_vars
    /\ WF_vars(RunConsumerLoopWithSleeper)
    /\ WF_vars(LiveReadIssue)
    /\ WF_vars(LiveReadReturn)
    /\ WF_vars(SleepReturn)
    /\ WF_vars(HandleReturn)
    /\ WF_vars(DeferredClose)

(* ------------------------- ConsumeMessage ----------------------------- *)
\* the messages a caller of ConsumeMessage holds; "" is the nil or empty slice
HelperMessages == [Key : {"", "k1"}, Value : {"", "v1", "v2"}]

HelperInit ==
    /\ KafkaInit
    /\ cur = 1
    /\ parked = FreshInstance
    /\ helper = [pc |-> "idle", msg |-> NoMsg, calls |-> << >>, log |-> << >>]
    /\ stk = Idle
    /\ auth = Idle
    /\ rec = Idle

\* variant: the key of the caller's message is handed to the Handler
ConsumeMessage_withKey(m) ==
    /\ helper.pc = "idle"
    /\ Len(helper.log) < MaxHelperCalls
    /\ helper' = [helper EXCEPT !.pc = "handling", !.msg = m,
                     !.calls = << [Key |-> m.Key, Value |-> m.Value] >>]
    /\ UNCHANGED << loopVars, stk, auth, rec >>

\* ConsumeMessage(ctx, handler, msgValue) called with the value of the
\* caller's message m: handler.Handle(ctx, nil, msgValue)
ConsumeMessage(m) ==
    /\ helper.pc = "idle"
    /\ Len(helper.log) < MaxHelperCalls
    /\ helper' = [helper EXCEPT !.pc = "handling", !.msg = m,
                     !.calls = << [Key |-> "", Value |-> m.Value] >>]
    /\ UNCHANGED << loopVars, stk, auth, rec >>

\* variant: the Handler's error is logged and nil is returned
ConsumeMessageReturn_swallow(err) ==
    /\ helper.pc = "handling"
    /\ helper' = [helper EXCEPT !.pc = "idle", !.calls = << >>,
                     !.log = Append(@, [msg |-> helper.msg, calls |-> helper.calls,
                                        handlerRet |-> err, ret |-> Nil])]
    /\ UNCHANGED << loopVars, stk, auth, rec >>

\* the Handler returns err and ConsumeMessage returns it
ConsumeMessageReturn(err) ==
    /\ helper.pc = "handling"
    /\ helper' = [helper EXCEPT !.pc = "idle", !.calls = << >>,
                     !.log = Append(@, [msg |-> helper.msg, calls |-> helper.calls,
                                        handlerRet |-> err, ret |-> err])]
    /\ UNCHANGED << loopVars, stk, auth, rec >>

HelperCall == \E m \in HelperMessages : ConsumeMessage(m)

HelperReturn == \E err \in {Nil} \cup HandlerErrors : ConsumeMessageReturn(err)

NextHelper ==
    \/ HelperCall
    \/ HelperReturn

SpecHelper == HelperInit /\ [][NextHelper]_vars

(* ------------------------- CreateStack -------------------------------- *)
\* A handler is the sequence of the wrappers around the final handler,
\* outermost first, ending with the final handler: m(next) is << m >> \o next.
\* A middleware of kind "pass" calls next.ServeHTTP once, one of kind "stop"
\* answers the request itself.
Middlewares == [name : {"middleware1", "middleware2", "middleware3"},
                kind : {"pass", "stop"}]

finalHandler == [name |-> "handler", kind |-> "final"]

RECURSIVE SeqsUpTo(_, _)
SeqsUpTo(S, n) ==
    IF n = 0 THEN { << >> }
    ELSE LET shorter == SeqsUpTo(S, n - 1)
         IN  shorter \cup { Append(q, x) : q \in shorter, x \in S }

\* variant: for i := 0; i < len(m); i++ { next = m[i](next) }
RECURSIVE CreateStack_forward(_, _, _)
CreateStack_forward(m, i, next) ==
    IF i >= 1 /\ i <= Len(m) THEN CreateStack_forward(m, i + 1, << m[Len(m) + 1 - i] >> \o next)
    ELSE next

\* the loop of the function CreateStack returns, from index i down:
\* for ; i >= 0; i-- { next = m[i](next) }; return next   (indices from 1 here)
RECURSIVE CreateStack(_, _, _)
CreateStack(m, i, next) ==
    IF i >= 1 THEN CreateStack(m, i - 1, << m[i] >> \o next)
    ELSE next

StackInit ==
    /\ KafkaInit
    /\ cur = 1
    /\ parked = FreshInstance
    /\ helper = Idle
    /\ \E m \in SeqsUpTo(Middlewares, MaxStack) :
         stk = [pc |-> "created", m |-> m, handler |-> << >>, rest |-> << >>,
                trace |-> << >>]
    /\ auth = Idle
    /\ rec = Idle

\* stack := CreateStack(m...); handler := stack(finalHandler)
StackApply ==
    /\ stk.pc = "created"
    /\ LET h == CreateStack(stk.m, Len(stk.m), << finalHandler >>)
       IN  stk' = [stk EXCEPT !.pc = "serving", !.handler = h, !.rest = h]
    /\ UNCHANGED << loopVars, helper, auth, rec >>

\* handler.ServeHTTP(w, req), one handler of the chain at a time
StackServeHTTP ==
    /\ stk.pc = "serving"
    /\ LET h == Head(stk.rest)
       IN  stk' = [stk EXCEPT !.trace = Append(@, h.name),
                              !.rest = IF h.kind = "pass" THEN Tail(@) ELSE << >>,
                              !.pc = IF h.kind = "pass" THEN "serving" ELSE "done"]
    /\ UNCHANGED << loopVars, helper, auth, rec >>

NextStack ==
    \/ StackApply
    \/ StackServeHTTP

SpecStack == StackInit /\ [][NextStack]_vars

(* ------------------------- http.ResponseWriter ------------------------ *)
StatusOK == 200
StatusUnauthorized == 401
StatusInternalServerError == 500

\* a response nothing has been written to; status 0: header not yet written
NoResponse == [status |-> 0, ctype |-> "", body |-> ""]

\* w.Header().Set("Content-Type", v): without effect once the header is written
SetContentType(w, v) == IF w.status = 0 THEN [w EXCEPT !.ctype = v] ELSE w

\* w.WriteHeader(code): the first call decides the status, later ones are dropped
WriteHeader(w, code) == IF w.status = 0 THEN [w EXCEPT !.status = code] ELSE w

\* w.Write(b): writes the header with 200 when it has not been written
Write(w, b) ==
    LET v == WriteHeader(w, StatusOK) IN [v EXCEPT !.body = @ \o b]

\* http.Error(w, error, code)
http_Error(w, error, code) ==
    Write(WriteHeader(SetContentType(w, "text/plain; charset=utf-8"), code), error)

(* ------------------------- AuthMiddleware ----------------------------- *)
\* values of the Authorization header; "" is the absent header
AuthHeaders == { "", "Bearer", "Bearer ", "Bearer t1", "Bearer t2",
                 "bearer t1", "Basic dDE6cHc=" }

\* the access_token cookie, absent or with a value
NoCookie == [present |-> FALSE, Value |-> ""]
Cookies == { NoCookie } \cup [present : {TRUE}, Value : {"", "t1", "t3"}]

\* *User as far as the middleware reads it; NilUser is the nil pointer
NilUser == [ID |-> "", Uuid |-> "", Roles |-> << >>, nil |-> TRUE]
Users == { [ID |-> "1", Uuid |-> "u-1", Roles |-> << "admin", "user" >>, nil |-> FALSE],
           [ID |-> "2", Uuid |-> "u-2", Roles |-> << "user" >>, nil |-> FALSE],
           [ID |-> "3", Uuid |-> "u-3", Roles |-> << >>, nil |-> FALSE] }

\* the x-user-* headers of a request; a client may send its own
NoUserHeaders == [id |-> "", uuid |-> "", roles |-> ""]
ClientUserHeaders == { NoUserHeaders, [id |-> "1", uuid |-> "u-1", roles |-> "admin"] }

\* results of authService(token)
AuthErrors == { {"invalid token"} }
AuthResults == [user : Users \cup {NilUser}, err : {Nil} \cup AuthErrors]

\* strings.Join(elems, sep)
RECURSIVE strings_Join(_, _)
strings_Join(elems, sep) ==
    IF Len(elems) = 0 THEN ""
    ELSE IF Len(elems) = 1 THEN elems[1]
    ELSE elems[1] \o sep \o strings_Join(Tail(elems), sep)

extractToken(authHeader, cookie) ==
    IF authHeader # "" /\ Len(authHeader) > 7 /\ SubSeq(authHeader, 1, 7) = "Bearer "
    THEN SubSeq(authHeader, 8, Len(authHeader))
    ELSE IF cookie.present THEN cookie.Value
    ELSE ""

AuthInit ==
    /\ KafkaInit
    /\ cur = 1
    /\ parked = FreshInstance
    /\ helper = Idle
    /\ stk = Idle
    /\ \E h \in AuthHeaders, c \in Cookies, x \in ClientUserHeaders :
         auth = [pc |-> "request", authHeader |-> h, cookie |-> c, headers |-> x,
                 token |-> "", svcCalls |-> 0, result |-> [user |-> NilUser, err |-> Nil],
                 w |-> NoResponse, nextCalls |-> 0, ctxUser |-> NilUser,
                 nextHeaders |-> NoUserHeaders]
    /\ rec = Idle

\* the handler up to the call of authService
AuthServeHTTP ==
    /\ auth.pc = "request"
    /\ LET token == extractToken(auth.authHeader, auth.cookie)
       IN  IF token = ""
           THEN auth' = [auth EXCEPT !.pc = "done",
                           !.w = http_Error(@, "missing access token", StatusUnauthorized)]
           ELSE auth' = [auth EXCEPT !.pc = "authService", !.token = token,
                           !.svcCalls = @ + 1]
    /\ UNCHANGED << loopVars, helper, stk, rec >>

\* variant: the handler goes on to next after the 401 (no return)
AuthServiceReturn_noReturn(res) ==
    /\ auth.pc = "authService"
    /\ IF res.err # Nil
       THEN auth' = [auth EXCEPT !.pc = "done", !.result = res,
                       !.w = Write(http_Error(WriteHeader(SetContentType(@, "application/json"),
                                                    StatusUnauthorized),
                                        "invalid access token", StatusUnauthorized), "ok"),
                       !.nextCalls = @ + 1]
       ELSE IF res.user.nil
       THEN auth' = [auth EXCEPT !.pc = "panicked", !.result = res]
       ELSE LET hs == [id |-> res.user.ID, uuid |-> res.user.Uuid,
                       roles |-> strings_Join(res.user.Roles, ",")]
            IN  auth' = [auth EXCEPT !.pc = "done", !.result = res,
                           !.ctxUser = res.user, !.headers = hs,
                           !.nextCalls = @ + 1, !.nextHeaders = hs,
                           !.w = Write(@, "ok")]
    /\ UNCHANGED << loopVars, helper, stk, rec >>

\* the handler from the result of authService on; next answers 200 "ok";
\* reading user.ID of a nil *User panics
AuthServiceReturn(res) ==
    /\ auth.pc = "authService"
    /\ IF res.err # Nil
       THEN auth' = [auth EXCEPT !.pc = "done", !.result = res,
                       !.w = http_Error(WriteHeader(SetContentType(@, "application/json"),
                                                    StatusUnauthorized),
                                        "invalid access token", StatusUnauthorized)]
       ELSE IF res.user.nil
       THEN auth' = [auth EXCEPT !.pc = "panicked", !.result = res]
       ELSE LET hs == [id |-> res.user.ID, uuid |-> res.user.Uuid,
                       roles |-> strings_Join(res.user.Roles, ",")]
            IN  auth' = [auth EXCEPT !.pc = "done", !.result = res,
                           !.ctxUser = res.user, !.headers = hs,
                           !.nextCalls = @ + 1, !.nextHeaders = hs,
                           !.w = Write(@, "ok")]
    /\ UNCHANGED << loopVars, helper, stk, rec >>

AuthService == \E res \in AuthResults : AuthServiceReturn(res)

NextAuth ==
    \/ AuthServeHTTP
    \/ AuthService

SpecAuth == AuthInit /\ [][NextAuth]_vars

(* ------------------------- RecoveryMiddleware ------------------------- *)
\* what the wrapped handler does to the ResponseWriter before it ends
HandlerOps == { "WriteHeader(200)", "WriteHeader(404)", "Write", "Header().Set" }

\* values recover() returns after a panic; panic(nil) arrives as a
\* *runtime.PanicNilError (go 1.25.6), so none of them is nil
PanicValues == { "test panic", "runtime.PanicNilError", "http.ErrAbortHandler" }

\* tracing.GetTraceIDFromContext(r.Context())
TraceIDs == { "", "trace-1" }

\* json.NewEncoder(w).Encode(ErrorResponse{Error: errMsg, TraceID: traceID})
json_Encode(errMsg, traceID) ==
    "{\"error\":\"" \o errMsg \o "\""
        \o (IF traceID # "" THEN ",\"trace_id\":\"" \o traceID \o "\"" ELSE "")
        \o "}\n"

\* rest.WriteJSONError(w, status, errMsg, traceID)
WriteJSONError(w, status, errMsg, traceID) ==
    Write(WriteHeader(SetContentType(w, "application/json"), status),
          json_Encode(errMsg, traceID))

RecInit ==
    /\ KafkaInit
    /\ cur = 1
    /\ parked = FreshInstance
    /\ helper = Idle
    /\ stk = Idle
    /\ auth = Idle
    /\ \E t \in TraceIDs :
         rec = [pc |-> "request", traceID |-> t, ops |-> << >>, w |-> NoResponse,
                handlerW |-> NoResponse, panic |-> "none", propagated |-> FALSE,
                mwWrites |-> 0]

\* the handler up to next.ServeHTTP(w, r), the deferred function registered
RecServeHTTP ==
    /\ rec.pc = "request"
    /\ rec' = [rec EXCEPT !.pc = "next"]
    /\ UNCHANGED << loopVars, helper, stk, auth >>

\* the wrapped handler uses the ResponseWriter
RecHandlerOp ==
    /\ rec.pc = "next"
    /\ Len(rec.ops) < MaxHandlerOps
    /\ \E op \in HandlerOps :
         LET v == CASE op = "WriteHeader(200)" -> WriteHeader(rec.w, StatusOK)
                    [] op = "WriteHeader(404)" -> WriteHeader(rec.w, 404)
                    [] op = "Write" -> Write(rec.w, "data")
                    [] OTHER -> SetContentType(rec.w, "text/html")
         IN  rec' = [rec EXCEPT !.ops = Append(@, op), !.w = v, !.handlerW = v]
    /\ UNCHANGED << loopVars, helper, stk, auth >>

\* the wrapped handler returns: recover() is nil in the deferred function
RecHandlerReturn ==
    /\ rec.pc = "next"
    /\ rec' = [rec EXCEPT !.pc = "done"]
    /\ UNCHANGED << loopVars, helper, stk, auth >>

\* variant: the deferred function panics again after logging
RecHandlerPanic_rethrow(v) ==
    /\ rec.pc = "next"
    /\ rec' = [rec EXCEPT !.pc = "done", !.panic = v, !.propagated = TRUE]
    /\ UNCHANGED << loopVars, helper, stk, auth >>

\* the wrapped handler panics with v: the deferred function recovers it, logs
\* and calls rest.WriteJSONError(w, 500, "Internal Server Error", traceID)
RecHandlerPanic(v) ==
    /\ rec.pc = "next"
    /\ rec' = [rec EXCEPT !.pc = "done", !.panic = v,
                  !.w = WriteJSONError(@, StatusInternalServerError,
                                       "Internal Server Error", rec.traceID),
                  !.mwWrites = @ + 1]
    /\ UNCHANGED << loopVars, helper, stk, auth >>

RecPanic == \E v \in PanicValues : RecHandlerPanic(v)

NextRec ==
    \/ RecServeHTTP
    \/ RecHandlerOp
    \/ RecHandlerReturn
    \/ RecPanic

SpecRec == RecInit /\ [][NextRec]_vars

(* A reader of an idle partition: it yields end-of-stream errors until   *)
(* cancellation, over a longer run.                                      *)
IdleErrors == { {io_EOF}, {net_Err, io_EOF}, {context_Canceled},
                {context_DeadlineExceeded} }

IdleReadIssue == ReadIssueUpTo(MaxIdleReads)

IdleReadReturn == ReadReturnFrom({}, IdleErrors)

NextIdle ==
    \/ NewConsumer
    \/ RunConsumerLoopWithSleeper
    \/ IdleReadIssue
    \/ IdleReadReturn
    \/ SleepReturn
    \/ DeferredClose

SpecIdle == Init /\ [][NextIdle]_vars

Loop == pc \in {"loop", "reading", "sleeping", "handling"}
Stopped == pc \in {"returned", "closed"}

(* ----------------------------- claims -------------------------------- *)

\* C1: as long as no read has returned a cancellation-class error, the loop
\* has not returned: it is reading, handling, pausing or about to read,
\* whatever end-of-stream errors, other errors and handler results occurred.
C1_NeverReturnsWithoutCancellation ==
    (nCancel = 0 /\ entry # "none") => (pc \in {"spawned"} \/ Loop)

\* a run with a message, a failed handler, ten errors of both classes and a
\* backoff, still going
C1_Witness ==
    /\ nCancel = 0 /\ Loop
    /\ nOk >= 1 /\ handleErrs >= 1 /\ nEof >= 1 /\ nOther >= 1
    /\ sleeps = 1 /\ reads = 11

\* C2: the step in which a read returns a cancellation-class error ends the
\* loop, and after it no read, Handler call or Sleeper call is made.
C2_CancellationTerminatesAtOnce ==
    [][ /\ (nCancel' > nCancel) => (pc' = "returned")
        /\ (nCancel > 0) => /\ Stopped /\ pc' \in {"returned", "closed"}
                            /\ reads' = reads
                            /\ handles' = handles
                            /\ sleeps' = sleeps ]_vars

\* cancellation on a later attempt, with the counter at 9
C2_Witness ==
    pc = "returned" /\ nCancel = 1 /\ retryCount = 9 /\ nOk >= 1 /\ reads = 11

\* C3: when the read that follows exactly 10 consecutive non-cancellation
\* errors is issued, the Sleeper has been invoked exactly once in that streak
\* and the Retry Counter is 0.
C3_SleepOnceAfterTenErrors ==
    (errRun = 10) => /\ sleepsInRun = 1
                     /\ pc \in {"sleeping", "loop", "reading", "returned", "closed"}
                     /\ (pc = "reading" => retryCount = 0)

\* the 11th read is issued after a mixed streak of ten errors
C3_Witness ==
    pc = "reading" /\ errRun = 10 /\ nEof >= 1 /\ nOther >= 1 /\ reads = 11

\* C4: the Retry Counter is never negative, and from a successful read until
\* the next read returns (Handler outstanding, returned with or without an
\* error, next read issued) it is 0.
C4_CounterZeroAfterSuccess ==
    /\ retryCount >= 0
    /\ (pc = "handling") => (retryCount = 0)
    /\ (nOk > 0 /\ errRun = 0) => (retryCount = 0)

\* a message read after errors of both classes, its Handler failed
C4_Witness ==
    /\ pc = "reading" /\ nOk = 1 /\ handleErrs = 1 /\ errRun = 0
    /\ nEof >= 3 /\ nOther >= 3 /\ retryCount = 0

\* C5: a Handler error leaves the loop about to read again, with no Sleeper
\* call and the Retry Counter 0 before and after; the next Handler call is for
\* a later message; from the top of the loop the only step is a read; and when
\* every read so far returned a message whose Handler failed, there are as
\* many Handler calls as reads, no pause and a counter of 0.
C5_HandlerErrorDoesNotPenalise ==
    [][ /\ (handleErrs' = handleErrs + 1) =>
             /\ pc' = "loop"
             /\ sleeps' = sleeps
             /\ retryCount = 0 /\ retryCount' = 0
             /\ handles' = handles
        /\ (handles' = handles + 1) =>
             /\ delivered'.Offset = delivered.Offset + 1
             /\ nOk' = nOk + 1
        /\ (pc = "loop") => (pc' = "reading" /\ reads' = reads + 1)
        /\ (nOk = reads /\ handleErrs = nOk /\ entry # "none") =>
             /\ handles = reads
             /\ sleeps = 0
             /\ retryCount = 0
             /\ pc \in {"spawned", "loop"} ]_vars

\* five valid messages, five failed Handler calls
C5_Witness ==
    pc = "loop" /\ reads = 5 /\ nOk = 5 /\ handles = 5 /\ handleErrs = 5
    /\ sleeps = 0 /\ retryCount = 0

\* C6: the number of Handler calls equals the number of successful reads, the
\* last Handler call carried the key and the value of the last message the
\* Reader returned, and that call was made before the next read was issued.
C6_OneHandleCallPerMessage ==
    /\ handles = nOk
    /\ (handles >= 1) => /\ delivered.Key = lastRead.Key
                         /\ delivered.Value = lastRead.Value
                         /\ delivered.Offset = lastRead.Offset
    /\ (nOk = 0) => (delivered = NoMsg)
    /\ (pc = "reading") => (reads = nOk + nEof + nOther + 1)

\* one valid message ("k1","v1") then cancellation
C6_Witness ==
    /\ pc = "returned" /\ reads = 2 /\ nOk = 1 /\ handles = 1
    /\ delivered.Key = "k1" /\ delivered.Value = "v1"

\* C7 as stated: the loop-driver, called directly, has invoked Reader.Close
\* exactly once by the time it has returned, and never while it runs.
C7_DriverClosesReader ==
    /\ (entry = "driver" /\ Stopped) => (closes = 1)
    /\ (~Stopped) => (closes = 0)

\* C7 amended: the loop-driver never invokes Reader.Close itself; Close is
\* invoked at most once, never while the loop runs, and only by the deferred
\* call of the goroutine that a starter launched, after the loop returned on a
\* cancellation-class error.
C7_CloseOnlyByStarterAfterReturn ==
    /\ closes <= 1
    /\ (entry = "driver") => (closes = 0)
    /\ (~Stopped) => (closes = 0)
    /\ (pc = "returned") => (closes = 0 /\ nCancel = 1)
    /\ (pc = "closed") => (closes = 1 /\ entry = "starter" /\ nCancel = 1)

\* the loop-driver, called directly, has returned after a message and a
\* cancellation and the Reader is not closed
C7_Witness ==
    entry = "driver" /\ pc = "returned" /\ closes = 0 /\ nOk = 1 /\ reads = 2

\* C8: when the Reader yielded k end-of-stream errors and then a cancellation
\* error, the loop has stopped with floor(k/10) Sleeper calls and no Handler call.
C8_IdleRunSleepsEveryTenth ==
    (Stopped /\ nOk = 0 /\ nOther = 0) =>
        /\ sleeps = nEof \div 10
        /\ handles = 0
        /\ nCancel = 1
        /\ reads = nEof + 1

\* 21 end-of-stream errors then cancellation: two Sleeper calls
C8_Witness ==
    pc = "returned" /\ nEof = 21 /\ sleeps = 2 /\ handles = 0

\* C9: the Sleeper is invoked only by a step that completes 10 consecutive
\* reader errors since the last successful read, backoff or loop start, and
\* while fewer than 10 reader errors have occurred no Sleeper call was made.
C9_NoSleepBelowThreshold ==
    [][ /\ (sleeps' # sleeps) => /\ sleeps' = sleeps + 1
                                 /\ sinceReset = 9 /\ sinceReset' = 10
                                 /\ pc = "reading" /\ pc' = "sleeping"
        /\ (pc' = "sleeping" /\ pc # "sleeping") => (sleeps' = sleeps + 1)
        /\ (nEof + nOther < 10) => (sleeps = 0) ]_vars

\* cancellation after nine errors: no Sleeper call
C9_Witness ==
    pc = "returned" /\ nEof + nOther = 9 /\ nOk = 0 /\ sleeps = 0

\* C10: at most one Handler call is outstanding, none is outstanding when a
\* read is issued or in progress, and the n-th Handler call is for the n-th
\* message the Reader returned.
C10_ReadsAndHandlesSequential ==
    /\ inflight \in {0, 1}
    /\ (inflight = 1) <=> (pc = "handling")
    /\ (pc \in {"loop", "reading"}) => (inflight = 0)
    /\ (handles >= 1) => (delivered.Offset = handles - 1)
    /\ (pc = "handling") => (msg = lastRead /\ msg.Offset = nOk - 1)

\* the third message is being handled
C10_Witness ==
    pc = "handling" /\ inflight = 1 /\ handles = 3 /\ delivered.Offset = 2

\* C11: every Sleeper call requests 10 seconds, and two runs whose reader
\* results differ only in the class (end-of-stream or other) of their
\* non-cancellation errors agree, after the same number of results, on their
\* reads, Handler calls, Sleeper calls, Retry Counter and termination.
C11_UniformBackoff ==
    /\ (sleeps = 0) => (sleepArg = 0)
    /\ (sleeps > 0) => (sleepArg = 10)
    /\ (parked.sleeps > 0) => (parked.sleepArg = 10)
    /\ (Returned(Locals) = Returned(parked)) =>
         /\ nOk = parked.nOk
         /\ nCancel = parked.nCancel
         /\ nEof + nOther = parked.nEof + parked.nOther
         /\ handles = parked.handles
         /\ sleeps = parked.sleeps
         /\ sleepArg = parked.sleepArg
         /\ (pc \in {"returned", "closed"}) <=> (parked.pc \in {"returned", "closed"})
         /\ (pc = parked.pc) => /\ retryCount = parked.retryCount
                                /\ reads = parked.reads

\* the second run, on a mix of both classes, makes its second Sleeper call;
\* the first run, on end-of-stream errors only, has paused twice
C11_Witness ==
    /\ cur = 2 /\ pc = "sleeping" /\ sleeps = 2 /\ nOther >= 5 /\ nEof >= 5
    /\ handles = 1
    /\ parked.pc = "loop" /\ parked.sleeps = 2 /\ parked.nOther = 0

\* C14: a step of one loop instance leaves the variables of the other
\* instance unchanged, a context switch changes neither instance, and in
\* each instance the Retry Counter, the Sleeper calls, the Handler calls and
\* termination are determined by the results of its own Reader.
C14_InstancesShareNoState ==
    [][ /\ (cur' = cur) => (parked' = parked)
        /\ (cur' # cur) => (parked' = Locals /\ Locals' = parked)
        /\ \A p \in {Locals, parked} :
             /\ p.retryCount = p.sinceReset
             /\ p.sleepsInRun = p.errRun \div 10
             /\ p.handles = p.nOk
             /\ (p.pc \in {"returned", "closed"}) <=> (p.nCancel > 0)
             /\ (p.nEof = 0) => (p.lastErrorTime = ZeroTime) ]_vars

\* the first instance pauses after ten end-of-stream errors while the second
\* has handled a message and counted one other-class error
C14_Witness ==
    /\ cur = 2 /\ parked.pc = "sleeping" /\ parked.nEof = 10
    /\ parked.retryCount = 10
    /\ pc = "loop" /\ retryCount = 1 /\ nOther = 1 /\ handles = 1

\* C12: in a run in which the Reader eventually returns a cancellation-class
\* error and every Handler call and Sleeper call returns, a loop that has been
\* entered eventually stops.
C12_CancellationEventuallyStops ==
    (pc \in {"loop", "reading", "sleeping", "handling"}) ~> (pc \in {"returned", "closed"})

\* stopped by the cancellation that follows a backoff
C12_Witness ==
    pc = "returned" /\ sleeps = 1 /\ nCancel = 1 /\ reads = MaxLiveReads

\* C13: the step in which a starter returns to its caller launches the
\* goroutine and nothing else: no read, Handler call, Sleeper call or loop exit
\* has happened; and whenever the loop runs on a starter's goroutine, also
\* with a read that has not returned, the starter has returned.
C13_StartersFireAndForget ==
    [][ /\ (starterPc # "returned" /\ starterPc' = "returned") =>
             /\ pc' = "spawned" /\ goroutines' = 1
             /\ reads' = 0 /\ handles' = 0 /\ sleeps' = 0 /\ closes' = 0
        /\ (entry = "starter") => (starterPc = "returned")
        /\ (starterPc = "returned") => (starterPc' = "returned") ]_vars

\* the starter has returned while the first read has not
C13_Witness ==
    /\ entry = "starter" /\ starterPc = "returned"
    /\ pc = "reading" /\ reads = 1 /\ nCancel = 0 /\ goroutines = 1

\* C17: when scram.Mechanism returns an error, NewSecureConsumer ends in
\* log.Fatal; no Reader has been built, no goroutine launched, and no read,
\* Handler call or Sleeper call happens then or later.
C17_MechanismErrorIsFatal ==
    [][ /\ (starterPc = "sasl_err") =>
             /\ starterPc' = "exited" /\ pc' = "fatal"
        /\ (starterPc \in {"sasl_err", "exited"}) =>
             /\ readersBuilt = 0 /\ goroutines = 0 /\ entry = "none"
             /\ reads = 0 /\ handles = 0 /\ sleeps = 0 /\ closes = 0
             /\ readersBuilt' = 0 /\ goroutines' = 0
             /\ reads' = 0 /\ handles' = 0 /\ sleeps' = 0
        /\ (pc = "fatal") <=> (starterPc = "exited") ]_vars

\* NewSecureConsumer has ended in log.Fatal
C17_Witness ==
    pc = "fatal" /\ starterPc = "exited" /\ readersBuilt = 0 /\ goroutines = 0

\* C15: every call of ConsumeMessage makes exactly one Handler.Handle call,
\* with the message value it was given, and returns what the Handler returned
\* (nil or the Handler's error); no retry and no Sleeper call.
C15_HelperCallsHandlerOnce ==
    /\ (helper.pc = "handling") =>
          /\ Len(helper.calls) = 1
          /\ helper.calls[1].Value = helper.msg.Value
    /\ \A i \in 1..Len(helper.log) :
          /\ Len(helper.log[i].calls) = 1
          /\ helper.log[i].calls[1].Value = helper.log[i].msg.Value
          /\ helper.log[i].ret = helper.log[i].handlerRet
    /\ sleeps = 0
    /\ reads = 0

\* one call returned the Handler's error, the next one nil
C15_Witness ==
    /\ Len(helper.log) = 2
    /\ helper.log[1].ret \in HandlerErrors
    /\ helper.log[1].msg.Value = "v1"
    /\ helper.log[2].ret = Nil
    /\ helper.log[2].msg.Value = "v2"

\* C16 as stated: the Handler receives the key and the value of the message.
C16_KeyAndValueForwarded ==
    \A i \in 1..Len(helper.log) :
        /\ helper.log[i].calls[1].Key = helper.log[i].msg.Key
        /\ helper.log[i].calls[1].Value = helper.log[i].msg.Value

\* C16: ConsumeMessage takes the value of a message only and hands the
\* Handler that value with a nil key, whatever the key of the message is.
C16_ValueForwardedWithNilKey ==
    \A i \in 1..Len(helper.log) :
        /\ helper.log[i].calls = << [Key |-> "", Value |-> helper.log[i].msg.Value] >>

\* a message with a key went through ConsumeMessage
C16_Witness ==
    /\ Len(helper.log) >= 1
    /\ helper.log[1].msg = [Key |-> "k1", Value |-> "v1"]
    /\ helper.log[1].calls[1].Key = ""

\* C18: a request served by CreateStack(m1, ..., mn)(h) runs m1, m2, ..., mn
\* in argument order, each once, and then h once, as long as each middleware
\* calls its next handler; a middleware that answers the request itself ends
\* the chain there. With no middlewares the stack is h itself.
C18_StackOrder ==
    LET m == stk.m
        n == Len(m)
        order == [j \in 1..(n + 1) |-> IF j <= n THEN m[j].name ELSE "handler"]
        passing(k) == \A j \in 1..k : m[j].kind = "pass"
    IN  /\ Len(stk.trace) <= n + 1
        /\ stk.trace = SubSeq(order, 1, Len(stk.trace))
        /\ (stk.pc = "done") =>
              IF passing(n) THEN stk.trace = order
              ELSE /\ Len(stk.trace) <= n
                   /\ m[Len(stk.trace)].kind = "stop"
                   /\ passing(Len(stk.trace) - 1)
        /\ (stk.pc # "created" /\ n = 0) => (stk.handler = << finalHandler >>)

\* the request of TestCreateStack has reached the final handler
C18_Witness ==
    /\ stk.pc = "done"
    /\ Len(stk.m) = 3
    /\ stk.trace = << "middleware1", "middleware2", "middleware3", "handler" >>

\* C19: AuthMiddleware calls the next handler, once, exactly when the request
\* carries a token (a Bearer Authorization header with a token, else an
\* access_token cookie with a value) and the auth service returns a user and
\* no error for it; the next handler then sees that user in the request
\* context and its ID, Uuid and comma-joined Roles in the x-user-id,
\* x-user-uuid and x-user-roles headers. Without a token, or with an error
\* of the auth service, the status is 401 and the next handler is not called.
C19_AuthGate ==
    LET bearer == \E t \in {"t1", "t2"} : auth.authHeader = "Bearer " \o t
        present == bearer \/ (auth.cookie.present /\ auth.cookie.Value # "")
        asked == auth.pc \in {"done", "panicked"} /\ present
        accepted == asked /\ auth.result.err = Nil /\ ~auth.result.user.nil
        rejected == asked /\ auth.result.err # Nil
    IN  /\ auth.nextCalls = (IF accepted THEN 1 ELSE 0)
        /\ (auth.svcCalls = 1) <=> (present /\ auth.pc # "request")
        /\ (auth.svcCalls = 1) =>
              auth.token = (IF bearer THEN SubSeq(auth.authHeader, 8, Len(auth.authHeader))
                            ELSE auth.cookie.Value)
        /\ accepted =>
              /\ auth.ctxUser = auth.result.user
              /\ auth.nextHeaders.id = auth.result.user.ID
              /\ auth.nextHeaders.uuid = auth.result.user.Uuid
              /\ auth.nextHeaders.roles =
                    (IF auth.result.user.ID = "1" THEN "admin,user"
                     ELSE IF auth.result.user.ID = "2" THEN "user" ELSE "")
        /\ ((auth.pc = "done" /\ ~present) \/ rejected) =>
              /\ auth.w.status = 401
              /\ auth.nextCalls = 0

\* a cookie token behind a non-Bearer header was accepted, over x-user-*
\* headers the client had sent
C19_Witness ==
    /\ auth.pc = "done"
    /\ auth.authHeader = "bearer t1"
    /\ auth.cookie.Value = "t3"
    /\ auth.nextCalls = 1
    /\ auth.ctxUser.ID = "2"
    /\ auth.nextHeaders.roles = "user"

\* C20 as stated: after any panic of the wrapped handler the panic has not
\* propagated and the response is a 500 JSON error with message
\* "Internal Server Error"; without a panic the middleware writes nothing.
C20_EveryPanicGives500 ==
    (rec.pc = "done") =>
        IF rec.panic # "none"
        THEN /\ ~rec.propagated
             /\ rec.w.status = 500
             /\ rec.w.ctype = "application/json"
             /\ rec.w.body = json_Encode("Internal Server Error", rec.traceID)
        ELSE rec.mwWrites = 0 /\ rec.w = rec.handlerW

\* C20: no panic of the wrapped handler propagates to the caller of
\* ServeHTTP. When the handler had not written the response header before it
\* panicked, the response is a 500 JSON error with message
\* "Internal Server Error"; when it had, the status and content type already
\* written stay and the JSON error is appended to the body. Without a panic
\* the middleware writes nothing itself.
C20_PanicContained ==
    (rec.pc = "done") =>
        IF rec.panic # "none"
        THEN /\ ~rec.propagated
             /\ rec.mwWrites = 1
             /\ rec.w.body = rec.handlerW.body
                                \o json_Encode("Internal Server Error", rec.traceID)
             /\ IF rec.handlerW.status = 0
                THEN /\ rec.w.status = 500
                     /\ rec.w.ctype = "application/json"
                     /\ rec.handlerW.body = ""
                ELSE /\ rec.w.status = rec.handlerW.status
                     /\ rec.w.ctype = rec.handlerW.ctype
        ELSE rec.mwWrites = 0 /\ rec.w = rec.handlerW

\* the panic of TestRecoveryMiddleware, recovered before anything was written
C20_Witness ==
    /\ rec.pc = "done"
    /\ rec.panic = "test panic"
    /\ rec.ops = << >>
    /\ rec.w.status = 500
    /\ rec.w.body = "{\"error\":\"Internal Server Error\"}\n"

\* C21: whenever a read is outstanding, the Retry Counter equals the number
\* of consecutive non-cancellation reader errors since the latest of loop
\* start, successful read and backoff sleep; the Sleeper calls since the
\* latest message number one per full ten errors of the current streak, so
\* 9 errors, one message and 9 more errors of either class give no Sleeper
\* call.
C21_CounterCountsCurrentStreak ==
    /\ (pc \in {"loop", "reading"}) => (retryCount = sinceReset)
    /\ (pc = "reading") => (retryCount = errRun % maxRetries)
    /\ (pc \in {"loop", "reading"}) => (sleepsInRun = errRun \div maxRetries)
    /\ (nOk = 1 /\ nEof + nOther = 18 /\ errRun = 9) => (sleeps = 0)

\* the read after 9 other-class errors, one message and 9 more
C21_Witness ==
    /\ pc = "reading" /\ reads = 20
    /\ nOk = 1 /\ nOther = 18 /\ errRun = 9
    /\ retryCount = 9 /\ sleeps = 0

\* C22 as stated: at an end-of-stream threshold the idle diagnostic is
\* emitted exactly when none was emitted before in the run or 30 seconds or
\* more have passed since the previous one.
C22_IdleLogAfterThirtyOrMore ==
    [][ (pc = "reading" /\ pc' = "sleeping" /\ nEof' = nEof + 1) =>
          ((log'.Debug = log.Debug + 1) <=>
              (log.Debug = 0 \/ now' - log.idleAt >= 30)) ]_vars

\* C22: at an end-of-stream threshold the idle diagnostic is emitted exactly
\* when none was emitted before in the run or more than 30 seconds have
\* passed since the previous one; after exactly 30 seconds or less it is
\* suppressed, and no other step emits it, so two emitted idle diagnostics
\* are more than 30 seconds apart.
C22_IdleLogAfterMoreThanThirty ==
    [][ /\ (pc = "reading" /\ pc' = "sleeping" /\ nEof' = nEof + 1) =>
             /\ (log'.Debug = log.Debug + 1) <=>
                    (log.Debug = 0 \/ now' - log.idleAt > 30)
             /\ (log'.Debug # log.Debug + 1) => (log' = log)
        /\ ~(pc = "reading" /\ pc' = "sleeping" /\ nEof' = nEof + 1) =>
             (log'.Debug = log.Debug /\ log'.idleAt = log.idleAt)
        /\ (log'.Debug = log.Debug + 1) =>
             /\ log'.idleAt = now'
             /\ (log.Debug > 0) => (log'.idleAt - log.idleAt > 30) ]_vars

\* the second threshold came exactly 30 seconds after the first diagnostic
\* and its diagnostic was suppressed
C22_Witness ==
    /\ pc = "sleeping" /\ sleeps = 2 /\ nEof = 20
    /\ log.Debug = 1 /\ log.idleAt = 0 /\ now = 30

\* C23: two runs given the same reader and handler results have, at the same
\* point of that sequence, the same position, Retry Counter, reads, Handler
\* calls and their arguments, Sleeper calls and their argument, whatever the
\* clock showed to each and whichever idle diagnostics each emitted; and a
\* step that reaches the end-of-stream threshold calls the Sleeper whether or
\* not it emits the diagnostic, the counter being 0 after the sleep.
C23_ClockInfluencesLoggingOnly ==
    [][ /\ (ClockResults(Locals) = ClockResults(parked) /\ pc = parked.pc) =>
             /\ retryCount = parked.retryCount
             /\ reads = parked.reads
             /\ handles = parked.handles /\ handleErrs = parked.handleErrs
             /\ delivered = parked.delivered /\ msg = parked.msg
             /\ sleeps = parked.sleeps /\ sleepArg = parked.sleepArg
             /\ nOk = parked.nOk /\ nEof = parked.nEof /\ nOther = parked.nOther
             /\ nCancel = parked.nCancel
        /\ (ClockResults(Locals) = ClockResults(parked)) =>
             /\ sleeps = parked.sleeps
             /\ handles = parked.handles
             /\ (pc \in {"returned", "closed"}) <=> (parked.pc \in {"returned", "closed"})
        /\ (cur' = cur /\ pc = "reading" /\ nEof' = nEof + 1 /\ sinceReset' = 10) =>
             /\ pc' = "sleeping" /\ sleeps' = sleeps + 1
             /\ log'.Debug \in {log.Debug, log.Debug + 1}
        /\ (cur' = cur /\ pc = "sleeping") => (pc' = "loop" /\ retryCount' = 0) ]_vars

\* after two end-of-stream thresholds one run has emitted two idle
\* diagnostics and the other one only
C23_Witness ==
    /\ ClockResults(Locals) = ClockResults(parked)
    /\ pc = "reading" /\ parked.pc = "reading"
    /\ sleeps = 2 /\ parked.sleeps = 2
    /\ nEof = 20
    /\ log.Debug # parked.log.Debug
    /\ lastErrorTime # parked.lastErrorTime

\* C24: the loop stops only in a step in which a read returns a
\* cancellation-class error. A request to stop changes nothing in the loop;
\* when it arrives during a Sleeper or Handler call that call ends as usual,
\* leaving the loop about to read with the Retry Counter at 0 after a sleep,
\* and no Sleeper or Handler step leads to the stopped state.
C24_StopsOnlyAtARead ==
    [][ /\ (pc # "returned" /\ pc' = "returned") =>
             (pc = "reading" /\ nCancel' = nCancel + 1)
        /\ (signal' # signal) =>
             /\ pc' = pc /\ retryCount' = retryCount /\ reads' = reads
             /\ sleeps' = sleeps /\ handles' = handles /\ nCancel' = nCancel
        /\ (pc = "sleeping" /\ pc' # pc) => (pc' = "loop" /\ retryCount' = 0)
        /\ (pc = "handling" /\ pc' # pc) => (pc' = "loop")
        /\ (pc = "loop" /\ pc' # pc) => (pc' = "reading" /\ reads' = reads + 1)
        /\ (pc \in {"returned", "closed"}) => (nCancel = 1 /\ signal # "none") ]_vars

\* the request came during the backoff sleep; the loop stopped at the read
\* that followed the sleep
C24_Witness ==
    /\ signal = "sleeping"
    /\ pc = "returned" /\ nCancel = 1
    /\ sleeps = 1 /\ reads = 11 /\ retryCount = 0

\* C25: a read result falls into exactly one class. An error that is or
\* wraps context.DeadlineExceeded, also one that wraps io.EOF as well, stops
\* the loop in that step: the Retry Counter keeps its value, no Sleeper call
\* and no error or warning entry is made, one informational entry is
\* written. An end-of-stream error, also one that wraps a network error, is
\* counted without an error entry; any other error is counted with one.
C25_OneClassCancellationFirst ==
    [][ /\ (nOk' + nEof' + nOther' + nCancel') - (nOk + nEof + nOther + nCancel) \in {0, 1}
        /\ (nCancel' = nCancel + 1) =>
             /\ pc = "reading" /\ pc' = "returned"
             /\ retryCount' = retryCount
             /\ sleeps' = sleeps /\ handles' = handles /\ reads' = reads
             /\ log'.Error = log.Error /\ log'.Warn = log.Warn
             /\ log'.Debug = log.Debug /\ log'.Info = log.Info + 1
        /\ (nEof' = nEof + 1) =>
             /\ pc' \in {"loop", "sleeping"}
             /\ retryCount' = retryCount + 1
             /\ log'.Error = log.Error /\ log'.Warn = log.Warn
        /\ (nOther' = nOther + 1) =>
             /\ pc' \in {"loop", "sleeping"}
             /\ retryCount' = retryCount + 1
             /\ log'.Error = log.Error + 1
        /\ (pc = "returned") => (pc' = "returned") ]_vars

\* a deadline error ended the loop with the counter at 9 after other-class
\* errors; the log has their nine error entries and no more
C25_Witness ==
    /\ pc = "returned" /\ nCancel = 1
    /\ retryCount = 9 /\ nOther = 9 /\ nOk = 0
    /\ sleeps = 0 /\ log.Error = 9 /\ log.Warn = 0

\* C26: a read that returns an other-class error writes exactly one error
\* entry, whose retry_count is the Retry Counter before the step, a value in
\* 0..9, and the counter is one higher after the step; a read that returns an
\* end-of-stream error writes no error entry and does not end the loop. The
\* error entries are those of the other-class read errors and of the failed
\* Handler calls.
C26_OtherErrorsLoggedWithCount ==
    [][ /\ (nOther' = nOther + 1) =>
             /\ log'.Error = log.Error + 1
             /\ log'.retry_count = retryCount
             /\ retryCount \in 0..9
             /\ retryCount' = retryCount + 1
        /\ (nEof' = nEof + 1) =>
             /\ log'.Error = log.Error
             /\ log'.retry_count = -1
             /\ log'.Warn = log.Warn
             /\ pc' \in {"loop", "sleeping"}
        /\ log.Error = nOther + handleErrs
        /\ (log.retry_count # -1 /\ pc = "sleeping") => (log.retry_count = 9) ]_vars

\* the tenth other-class error in a row was logged with retry_count 9
C26_Witness ==
    /\ pc = "sleeping" /\ nOther = 10 /\ nEof = 0
    /\ log.Error = 10 /\ log.retry_count = 9 /\ retryCount = 10

C28_CounterBounded ==
    [][ /\ retryCount \in 0..10
        /\ (pc = "reading") => (retryCount \in 0..9)
        /\ (retryCount = 10) <=> (pc = "sleeping")
        /\ (sleeps' = sleeps + 1) => (retryCount' = 10 /\ retryCount = 9)
        /\ (pc = "sleeping" /\ pc' # pc) => (retryCount' = 0) ]_vars

\* a Sleeper call after ten errors of both classes, the counter at 10
C28_Witness ==
    /\ pc = "sleeping" /\ retryCount = 10
    /\ nEof = 5 /\ nOther = 5 /\ sleeps = 1

\* C29: the Last-Error Timestamp changes only in a step that reaches the
\* end-of-stream threshold and emits the idle diagnostic, and becomes the
\* clock reading of that step; every other step leaves it unchanged, among
\* them successful reads, Handler returns, other-class errors with and
\* without backoff, end-of-stream errors below the threshold and thresholds
\* with a suppressed diagnostic. It never decreases.
C29_TimestampOnlyWithDiagnostic ==
    [][ /\ (lastErrorTime' # lastErrorTime) =>
             /\ pc = "reading" /\ pc' = "sleeping" /\ nEof' = nEof + 1
             /\ log'.Debug = log.Debug + 1
             /\ lastErrorTime' = now'
             /\ lastErrorTime' > lastErrorTime
        /\ (log'.Debug = log.Debug) => (lastErrorTime' = lastErrorTime)
        /\ (log'.Debug # log.Debug) => (lastErrorTime' = now' /\ log'.idleAt = now')
        /\ (nOk' # nOk \/ nOther' # nOther \/ handleErrs' # handleErrs \/ pc = "handling"
              \/ pc = "sleeping" \/ pc = "loop") => (lastErrorTime' = lastErrorTime)
        /\ lastErrorTime <= now /\ now <= now' ]_vars

\* the second idle diagnostic moved the timestamp from 0 to 31
C29_Witness ==
    /\ pc = "sleeping" /\ sleeps = 2 /\ nEof = 20
    /\ log.Debug = 2 /\ lastErrorTime = 31 /\ now = 31
====
